---- MODULE Spec2Model ----
(***************************************************************************)
(* The atomic integer cell of Sources/AtomicShims: store (relaxed), load   *)
(* (acquire) and exchange (release) on an atomic_intptr_t.                 *)
(*                                                                         *)
(* Memory is modelled with per-location modification orders and per-thread *)
(* views (the view-based operational reading of the C11 orderings):        *)
(*   - mem[l] is the modification order of location l, a sequence of       *)
(*     messages; a write step is the moment the write takes its place at   *)
(*     the end of that order;                                              *)
(*   - view[t][l] is the index in mem[l] of the newest write to l that     *)
(*     thread t has observed; Propagate makes a newer write visible, so a  *)
(*     load may return a value that is no longer the newest;               *)
(*   - a message carries the view it releases (rel); an acquire load       *)
(*     joins it into the reader's view; a relaxed store releases only      *)
(*     what a release sequence it continues (C11 5.1.2.4) releases.        *)
(* Every call is two steps: the invocation, then the single atomic         *)
(* instruction, which also returns. The caller's plain data is one more    *)
(* location; a racing plain read returns the old or the new value.         *)
(* The word is that of an ILP32 target: 32 bits, two's complement.         *)
(***************************************************************************)
EXTENDS Integers, Sequences, FiniteSets, Bags, TLC

VARIABLES
    mem,     \* [Locs -> Seq(message)]: the modification order of each location
    view,    \* [Threads -> [Locs -> index]]: what each thread has observed
    pc,      \* [Threads -> "idle" or the operation the thread is inside]
    arg,     \* [Threads -> [loc, val]]: the arguments of the call in progress
    last,    \* [Threads -> record of the thread's latest completed operation]
    prev,    \* [Threads -> record of the operation completed before last]
    calls,   \* number of operations begun, by all threads together
    called,  \* [Cells -> values passed to a store or exchange call begun so far]
    xret,    \* bag of the values returned by exchange calls
    need     \* [Threads -> [rel, rlx, seen]]: the newest data write of a
             \* writer whose exchange (rel) or store (rlx) the thread has
             \* loaded, and per cell the write its latest load returned

vars == <<mem, view, pc, arg, last, prev, calls, called, xret, need>>

\* ---------------------------------------------------------------- bounds
NumThreads == 2
MaxOps == 3
MaxData == 1

\* The extreme values of intptr_t, and the size of half a word.
IntPtrMax == 2147483647
IntPtrMin == -IntPtrMax - 1
HalfWord == 65536

Threads == 1..NumThreads
Cell == "c1"
Other == "c2"
Cells == {Cell, Other}
Data == "d"
Locs == Cells \cup {Data}
Initial == 0
Values == {IntPtrMin, IntPtrMax}
Wide == {IntPtrMin, -1, 0, 3, 7, IntPtrMax}

\* ---------------------------------------------------------------- helpers
Max(a, b) == IF a >= b THEN a ELSE b

Bottom == [l \in Locs |-> 1]

Join(v, w) == [l \in Locs |-> Max(v[l], w[l])]

\* A completed operation: its name, location and argument, the value it
\* returned, the index (ts) of the message it wrote or read, the length of
\* the location's modification order when it completed, the kind of write
\* it read from, and (a load) the index the thread's previous load of the
\* cell returned.
Done(o, l, v, r, i, n, s, f) ==
    [op |-> o, loc |-> l, val |-> v, ret |-> r, ts |-> i, len |-> n,
     src |-> s, floor |-> f]

NoOp == Done("none", Data, 0, 0, 0, 0, "none", 0)

\* The newest write to the data location made by thread t (0: none).
OwnWrite(t) ==
    LET own == {i \in 1..Len(mem[Data]) : mem[Data][i].by = t}
    IN  IF own = {} THEN 0 ELSE CHOOSE i \in own : \A j \in own : j <= i

Finish(t, rec) ==
    /\ last' = [last EXCEPT ![t] = rec]
    /\ prev' = [prev EXCEPT ![t] = last[t]]
    /\ pc' = [pc EXCEPT ![t] = "idle"]

\* ---------------------------------------------------------------- state
AtomicInt(v) ==
    <<[val |-> v, op |-> "init", by |-> 0, rel |-> Bottom, cur |-> Bottom, dw |-> 0]>>

Init ==
    /\ mem = [l \in Locs |-> AtomicInt(Initial)]
    /\ view = [t \in Threads |-> Bottom]
    /\ pc = [t \in Threads |-> "idle"]
    /\ arg = [t \in Threads |-> [loc |-> Data, val |-> 0]]
    /\ last = [t \in Threads |-> NoOp]
    /\ prev = [t \in Threads |-> NoOp]
    /\ calls = 0
    /\ called = [c \in Cells |-> {}]
    /\ xret = EmptyBag
    /\ need = [t \in Threads |-> [rel |-> 0, rlx |-> 0, seen |-> [c \in Cells |-> 0]]]

\* ---------------------------------------------------------------- the cell
\* The head of the release sequence a store by t at the end of c's
\* modification order continues: t's latest exchange on c, provided every
\* write after it is by t or is a read-modify-write (0: none).
ReleaseHead(t, c) ==
    LET n == Len(mem[c])
        heads == {j \in 1..n :
                    /\ mem[c][j].by = t
                    /\ mem[c][j].op = "exchange"
                    /\ \A i \in (j + 1)..n :
                          mem[c][i].by = t \/ mem[c][i].op = "exchange"}
    IN  IF heads = {} THEN 0 ELSE CHOOSE j \in heads : \A h \in heads : h <= j

\* Variants of store with one plausible defect each.
\* The value passes through a half-word type on its way to the cell.
DoStoreNarrow(t) ==
    /\ pc[t] = "store"
    /\ LET c == arg[t].loc
           k == Len(mem[c]) + 1
           h == ReleaseHead(t, c)
           seq == IF h = 0 THEN Bottom ELSE mem[c][h].cur
           m == [val |-> arg[t].val % HalfWord, op |-> "store", by |-> t,
                 rel |-> [seq EXCEPT ![c] = k], cur |-> Bottom,
                 dw |-> OwnWrite(t)]
       IN  /\ mem' = [mem EXCEPT ![c] = Append(@, m)]
           /\ view' = [view EXCEPT ![t][c] = k]
           /\ Finish(t, Done("store", c, arg[t].val, 0, k, k, "none", 0))
    /\ UNCHANGED <<arg, calls, called, xret, need>>

\* The store is given __ATOMIC_RELEASE: it releases the caller's view.
DoStoreRelease(t) ==
    /\ pc[t] = "store"
    /\ LET c == arg[t].loc
           k == Len(mem[c]) + 1
           cur == [view[t] EXCEPT ![c] = k]
           m == [val |-> arg[t].val, op |-> "store", by |-> t,
                 rel |-> cur, cur |-> cur, dw |-> OwnWrite(t)]
       IN  /\ mem' = [mem EXCEPT ![c] = Append(@, m)]
           /\ view' = [view EXCEPT ![t][c] = k]
           /\ Finish(t, Done("store", c, arg[t].val, 0, k, k, "none", 0))
    /\ UNCHANGED <<arg, calls, called, xret, need>>

\* store: atomic_store_explicit(&atomic_value->value, value, __ATOMIC_RELAXED).
\* The write is appended to the cell's modification order. Being relaxed it
\* releases nothing of the caller's current view.
DoStore(t) ==
    /\ pc[t] = "store"
    /\ LET c == arg[t].loc
           k == Len(mem[c]) + 1
           h == ReleaseHead(t, c)
           seq == IF h = 0 THEN Bottom ELSE mem[c][h].cur
           m == [val |-> arg[t].val, op |-> "store", by |-> t,
                 rel |-> [seq EXCEPT ![c] = k], cur |-> Bottom,
                 dw |-> OwnWrite(t)]
       IN  /\ mem' = [mem EXCEPT ![c] = Append(@, m)]
           /\ view' = [view EXCEPT ![t][c] = k]
           /\ Finish(t, Done("store", c, arg[t].val, 0, k, k, "none", 0))
    /\ UNCHANGED <<arg, calls, called, xret, need>>

\* Variants of load with one plausible defect each.
\* The two halves of the word are read separately.
Mix(a, b) == (a \div HalfWord) * HalfWord + (b % HalfWord)

DoLoadTorn(t) ==
    /\ pc[t] = "load"
    /\ \E j \in view[t][arg[t].loc]..Len(mem[arg[t].loc]) :
         LET c == arg[t].loc
             i == view[t][c]
             m == mem[c][i]
         IN  /\ view' = [view EXCEPT ![t] = Join(@, m.rel)]
             /\ need' = [need EXCEPT
                    ![t].rel = IF m.op = "exchange" THEN Max(@, m.dw) ELSE @,
                    ![t].rlx = IF m.op = "store" THEN Max(@, m.dw) ELSE @,
                    ![t].seen[c] = i]
             /\ Finish(t, Done("load", c, 0, Mix(m.val, mem[c][j].val), i,
                               Len(mem[c]), m.op, need[t].seen[c]))
    /\ UNCHANGED <<mem, arg, calls, called, xret>>

\* The read is not tied to what the thread has observed: any write of the
\* modification order may be returned.
DoLoadAny(t) ==
    /\ pc[t] = "load"
    /\ \E i \in 1..Len(mem[arg[t].loc]) :
         LET c == arg[t].loc
             m == mem[c][i]
         IN  /\ view' = [view EXCEPT ![t] = Join(@, m.rel)]
             /\ need' = [need EXCEPT
                    ![t].rel = IF m.op = "exchange" THEN Max(@, m.dw) ELSE @,
                    ![t].rlx = IF m.op = "store" THEN Max(@, m.dw) ELSE @,
                    ![t].seen[c] = i]
             /\ Finish(t, Done("load", c, 0, m.val, i, Len(mem[c]), m.op,
                               need[t].seen[c]))
    /\ UNCHANGED <<mem, arg, calls, called, xret>>

\* The read is hoisted: every load returns the value the cell started with.
DoLoadHoisted(t) ==
    /\ pc[t] = "load"
    /\ LET c == arg[t].loc
           m == mem[c][1]
       IN  /\ need' = [need EXCEPT ![t].seen[c] = 1]
           /\ Finish(t, Done("load", c, 0, m.val, 1, Len(mem[c]), m.op,
                             need[t].seen[c]))
    /\ UNCHANGED <<mem, view, arg, calls, called, xret>>

\* The load is made with an exchange of 0: it consumes the value it reads.
DoLoadConsume(t) ==
    /\ pc[t] = "load"
    /\ LET c == arg[t].loc
           k == Len(mem[c]) + 1
           old == mem[c][k - 1]
           m == [val |-> 0, op |-> "exchange", by |-> t,
                 rel |-> [old.rel EXCEPT ![c] = k], cur |-> Bottom, dw |-> 0]
       IN  /\ mem' = [mem EXCEPT ![c] = Append(@, m)]
           /\ view' = [view EXCEPT ![t] = [Join(@, old.rel) EXCEPT ![c] = k]]
           /\ need' = [need EXCEPT ![t].seen[c] = k - 1]
           /\ Finish(t, Done("load", c, 0, old.val, k - 1, k, old.op,
                             need[t].seen[c]))
    /\ UNCHANGED <<arg, calls, called, xret>>

\* load: return atomic_load_explicit(&atomic_value->value, __ATOMIC_ACQUIRE).
\* Reads the newest write the thread has observed and acquires what that
\* write released.
DoLoad(t) ==
    /\ pc[t] = "load"
    /\ LET c == arg[t].loc
           i == view[t][c]
           m == mem[c][i]
       IN  /\ view' = [view EXCEPT ![t] = Join(@, m.rel)]
           /\ need' = [need EXCEPT
                  ![t].rel = IF m.op = "exchange" THEN Max(@, m.dw) ELSE @,
                  ![t].rlx = IF m.op = "store" THEN Max(@, m.dw) ELSE @,
                  ![t].seen[c] = i]
           /\ Finish(t, Done("load", c, 0, m.val, i, Len(mem[c]), m.op,
                             need[t].seen[c]))
    /\ UNCHANGED <<mem, arg, calls, called, xret>>

\* Variants of exchange with one plausible defect each.
\* A load followed by a store: the value returned is the one the thread has
\* observed, which need not be the one replaced.
DoExchangeStale(t) ==
    /\ pc[t] = "exchange"
    /\ LET c == arg[t].loc
           k == Len(mem[c]) + 1
           old == mem[c][view[t][c]]
           cur == [view[t] EXCEPT ![c] = k]
           m == [val |-> arg[t].val, op |-> "exchange", by |-> t,
                 rel |-> Join(cur, old.rel), cur |-> cur, dw |-> OwnWrite(t)]
       IN  /\ mem' = [mem EXCEPT ![c] = Append(@, m)]
           /\ view' = [view EXCEPT ![t] = cur]
           /\ xret' = xret (+) SetToBag({old.val})
           /\ Finish(t, Done("exchange", c, arg[t].val, old.val, k, k, old.op, 0))
    /\ UNCHANGED <<arg, calls, called, need>>

\* The exchange is given __ATOMIC_RELAXED: it releases nothing of its own.
DoExchangeRelaxed(t) ==
    /\ pc[t] = "exchange"
    /\ LET c == arg[t].loc
           k == Len(mem[c]) + 1
           old == mem[c][k - 1]
           cur == [view[t] EXCEPT ![c] = k]
           m == [val |-> arg[t].val, op |-> "exchange", by |-> t,
                 rel |-> [old.rel EXCEPT ![c] = k], cur |-> Bottom,
                 dw |-> OwnWrite(t)]
       IN  /\ mem' = [mem EXCEPT ![c] = Append(@, m)]
           /\ view' = [view EXCEPT ![t] = cur]
           /\ xret' = xret (+) SetToBag({old.val})
           /\ Finish(t, Done("exchange", c, arg[t].val, old.val, k, k, old.op, 0))
    /\ UNCHANGED <<arg, calls, called, need>>

\* The value returned is the one installed, not the one replaced.
DoExchangeFetchNew(t) ==
    /\ pc[t] = "exchange"
    /\ LET c == arg[t].loc
           k == Len(mem[c]) + 1
           old == mem[c][k - 1]
           cur == [view[t] EXCEPT ![c] = k]
           m == [val |-> arg[t].val, op |-> "exchange", by |-> t,
                 rel |-> Join(cur, old.rel), cur |-> cur, dw |-> OwnWrite(t)]
       IN  /\ mem' = [mem EXCEPT ![c] = Append(@, m)]
           /\ view' = [view EXCEPT ![t] = cur]
           /\ xret' = xret (+) SetToBag({arg[t].val})
           /\ Finish(t, Done("exchange", c, arg[t].val, arg[t].val, k, k, old.op, 0))
    /\ UNCHANGED <<arg, calls, called, need>>

\* A single compare-and-swap against the value the thread has observed: it
\* goes through only when no newer write is in the cell.
DoExchangeCas(t) ==
    /\ pc[t] = "exchange"
    /\ view[t][arg[t].loc] = Len(mem[arg[t].loc])
    /\ LET c == arg[t].loc
           k == Len(mem[c]) + 1
           old == mem[c][k - 1]
           cur == [view[t] EXCEPT ![c] = k]
           m == [val |-> arg[t].val, op |-> "exchange", by |-> t,
                 rel |-> Join(cur, old.rel), cur |-> cur, dw |-> OwnWrite(t)]
       IN  /\ mem' = [mem EXCEPT ![c] = Append(@, m)]
           /\ view' = [view EXCEPT ![t] = cur]
           /\ xret' = xret (+) SetToBag({old.val})
           /\ Finish(t, Done("exchange", c, arg[t].val, old.val, k, k, old.op, 0))
    /\ UNCHANGED <<arg, calls, called, need>>

\* exchange: return atomic_exchange_explicit(&atomic_value->value, value,
\* __ATOMIC_RELEASE). A read-modify-write reads the last write in the
\* modification order and places its own write right after it; the new
\* message releases the caller's view and continues the release sequences
\* of the write it replaced. The read half is relaxed: nothing is acquired.
DoExchange(t) ==
    /\ pc[t] = "exchange"
    /\ LET c == arg[t].loc
           k == Len(mem[c]) + 1
           old == mem[c][k - 1]
           cur == [view[t] EXCEPT ![c] = k]
           m == [val |-> arg[t].val, op |-> "exchange", by |-> t,
                 rel |-> Join(cur, old.rel), cur |-> cur, dw |-> OwnWrite(t)]
       IN  /\ mem' = [mem EXCEPT ![c] = Append(@, m)]
           /\ view' = [view EXCEPT ![t] = cur]
           /\ xret' = xret (+) SetToBag({old.val})
           /\ Finish(t, Done("exchange", c, arg[t].val, old.val, k, k, old.op, 0))
    /\ UNCHANGED <<arg, calls, called, need>>

\* ---------------------------------------------------------------- the caller
\* A call begins: the thread passes the cell and, for store and exchange,
\* the value.
Invoke(t, o, c, v) ==
    /\ pc[t] = "idle"
    /\ calls < MaxOps
    /\ pc' = [pc EXCEPT ![t] = o]
    /\ arg' = [arg EXCEPT ![t] = [loc |-> c, val |-> v]]
    /\ calls' = calls + 1
    /\ called' = IF o \in {"store", "exchange"}
                 THEN [called EXCEPT ![c] = @ \cup {v}]
                 ELSE called
    /\ UNCHANGED <<mem, view, last, prev, xret, need>>

\* The caller's plain (non-atomic) write of its own data.
WriteData(t) ==
    /\ pc[t] = "idle"
    /\ Len(mem[Data]) <= MaxData
    /\ LET k == Len(mem[Data]) + 1
           m == [val |-> 1, op |-> "write", by |-> t,
                 rel |-> [Bottom EXCEPT ![Data] = k], cur |-> Bottom, dw |-> k]
       IN  /\ mem' = [mem EXCEPT ![Data] = Append(@, m)]
           /\ view' = [view EXCEPT ![t][Data] = k]
           /\ Finish(t, Done("write", Data, 1, 0, k, k, "none", 0))
    /\ UNCHANGED <<arg, calls, called, xret, need>>

\* The caller's plain read of the data: the newest write it has observed.
ReadData(t) ==
    /\ pc[t] = "idle"
    /\ calls < MaxOps
    /\ LET i == view[t][Data]
           m == mem[Data][i]
       IN  Finish(t, Done("read", Data, 0, m.val, i, Len(mem[Data]), m.op, 0))
    /\ calls' = calls + 1
    /\ UNCHANGED <<mem, view, arg, called, xret, need>>

Observed(t, v) == last[t].op = "load" /\ last[t].ret = v

\* A polling loop: load again unless the last load returned the awaited
\* value. The loop is not bounded, so the call is not counted.
Poll(t, v) ==
    /\ pc[t] = "idle"
    /\ ~Observed(t, v)
    /\ pc' = [pc EXCEPT ![t] = "load"]
    /\ arg' = [arg EXCEPT ![t] = [loc |-> Cell, val |-> 0]]
    /\ UNCHANGED <<mem, view, last, prev, calls, called, xret, need>>

\* A write becomes visible to a thread that has not observed it yet.
Propagate(t, l) ==
    /\ view[t][l] < Len(mem[l])
    /\ view' = [view EXCEPT ![t][l] = @ + 1]
    /\ UNCHANGED <<mem, pc, arg, last, prev, calls, called, xret, need>>

\* ---------------------------------------------------------------- Spec
\* Any thread calls any operation on the cell with any value.
Next ==
    \/ \E t \in Threads, v \in Values : Invoke(t, "store", Cell, v)
    \/ \E t \in Threads, v \in Values : Invoke(t, "exchange", Cell, v)
    \/ \E t \in Threads : Invoke(t, "load", Cell, 0)
    \/ \E t \in Threads : DoStore(t)
    \/ \E t \in Threads : DoLoad(t)
    \/ \E t \in Threads : DoExchange(t)
    \/ \E t \in Threads : Propagate(t, Cell)

Spec == Init /\ [][Next]_vars

\* ---------------------------------------------------------------- FrameSpec
\* Two cells: any thread stores to and loads from either, and exchanges on
\* the first.
NextFrame ==
    \/ \E t \in Threads, c \in Cells : Invoke(t, "store", c, IntPtrMax)
    \/ \E t \in Threads : Invoke(t, "exchange", Cell, IntPtrMin)
    \/ \E t \in Threads, c \in Cells : Invoke(t, "load", c, 0)
    \/ \E t \in Threads : DoStore(t)
    \/ \E t \in Threads : DoLoad(t)
    \/ \E t \in Threads : DoExchange(t)
    \/ \E t \in Threads, c \in Cells : Propagate(t, c)

FrameSpec == Init /\ [][NextFrame]_vars

\* ---------------------------------------------------------------- PubSpec
\* Message passing: the writer writes its data and publishes through the
\* cell with store or exchange; the readers load the cell and read the data.
Writer == 1
Readers == Threads \ {Writer}

NextPub ==
    \/ WriteData(Writer)
    \/ Invoke(Writer, "store", Cell, IntPtrMax)
    \/ Invoke(Writer, "exchange", Cell, IntPtrMin)
    \/ DoStore(Writer)
    \/ DoExchange(Writer)
    \/ \E t \in Readers : Invoke(t, "load", Cell, 0)
    \/ \E t \in Readers : DoLoad(t)
    \/ \E t \in Readers : ReadData(t)
    \/ \E t \in Readers, l \in {Cell, Data} : Propagate(t, l)

PubSpec == Init /\ [][NextPub]_vars

\* ---------------------------------------------------------------- SeqSpec
\* One thread stores, exchanges and loads any value of the word; the other
\* threads interfere with stores of their own.
Subject == 1
Others == Threads \ {Subject}

NextSeq ==
    \/ \E v \in Wide : Invoke(Subject, "store", Cell, v)
    \/ \E v \in Wide : Invoke(Subject, "exchange", Cell, v)
    \/ Invoke(Subject, "load", Cell, 0)
    \/ \E t \in Others : Invoke(t, "store", Cell, 42)
    \/ \E t \in Threads : DoStore(t)
    \/ DoLoad(Subject)
    \/ DoExchange(Subject)
    \/ Propagate(Subject, Cell)

SeqSpec == Init /\ [][NextSeq]_vars

\* ---------------------------------------------------------------- XchgSpec
\* Every thread repeatedly exchanges; every call installs a value of its
\* own (the number of the call), different from the initial value.
NextXchg ==
    \/ \E t \in Threads : Invoke(t, "exchange", Cell, calls + 1)
    \/ \E t \in Threads : DoExchange(t)
    \/ \E t \in Threads : Propagate(t, Cell)

XchgSpec == Init /\ [][NextXchg]_vars

\* ---------------------------------------------------------------- PollSpec
\* The cell starts at 0; the writer stores 42 once; every reader loads until
\* it observes 42. The writer after its store, and a reader after its loop,
\* may load again. Threads are scheduled fairly and a store becomes visible
\* to every thread in finite time.
PastLoop(t) == IF t = Writer THEN last[t].op # "none" ELSE Observed(t, 42)

StoreOnce == called[Cell] = {} /\ Invoke(Writer, "store", Cell, 42)

NextPoll ==
    \/ StoreOnce
    \/ DoStore(Writer)
    \/ \E t \in Readers : Poll(t, 42)
    \/ \E t \in Threads : (PastLoop(t) /\ Invoke(t, "load", Cell, 0))
    \/ \E t \in Threads : DoLoad(t)
    \/ \E t \in Readers : Propagate(t, Cell)

PollSpec ==
    /\ Init
    /\ [][NextPoll]_vars
    /\ WF_vars(StoreOnce)
    /\ WF_vars(DoStore(Writer))
    /\ \A t \in Readers : WF_vars(Poll(t, 42))
    /\ \A t \in Readers : WF_vars(DoLoad(t))
    /\ \A t \in Readers : WF_vars(Propagate(t, Cell))

\* ================================================================ claims
AllIdle == \A t \in Threads : pc[t] = "idle"
Holds(c) == mem[c][Len(mem[c])].val
Returned == BagToSet(xret)

\* C1: when the threads only exchange, each call with a value of its own, no
\* value is returned by two exchange calls, every returned value is the
\* initial value or the argument of another exchange call, and whenever no
\* call is in progress exactly one of the initial and the installed values
\* has not been returned: the value the cell holds.
C1_ExchangeTotalOrder ==
    /\ \A v \in Returned : CopiesIn(v, xret) = 1
    /\ Returned \subseteq ({Initial} \cup called[Cell])
    /\ \A t \in Threads : last[t].op = "exchange" => last[t].ret # last[t].val
    /\ AllIdle => (({Initial} \cup called[Cell]) \ Returned) = {Holds(Cell)}

C1_Witness ==
    /\ AllIdle
    /\ \A t \in Threads : last[t].op = "exchange"
    /\ Cardinality(Returned) >= 3
    /\ Holds(Cell) # Initial

\* C2: a read of the data made after a load that returned the value of an
\* exchange observes the data write the exchanging thread made before its
\* exchange, or a later one, never an older one.
C2_ReleaseAcquire ==
    \A t \in Threads : last[t].op = "read" => last[t].ts >= need[t].rel

C2_Witness ==
    \E t \in Readers :
        /\ prev[t].op = "load" /\ prev[t].src = "exchange"
        /\ need[t].rel >= 2
        /\ last[t].op = "read" /\ last[t].ret = 1

\* C3: every value a load returns is the initial value of the cell or the
\* argument of a store or exchange call on that cell begun before the load
\* returned.
C3_NoTornRead ==
    \A t \in Threads :
        last[t].op = "load" => last[t].ret \in ({Initial} \cup called[last[t].loc])

C3_Witness ==
    \E t, u \in Threads :
        /\ last[t].op = "load" /\ last[t].ret = IntPtrMax
        /\ Len(mem[Cell]) >= 3
        /\ u # t /\ last[u].op \in {"store", "exchange"} /\ last[u].val = IntPtrMin

\* C4: a load that follows a store of v to the same cell by the same thread,
\* with no write to the cell in between, returns v.
C4_StoreLoadRoundTrip ==
    \A t \in Threads :
        (/\ last[t].op = "load" /\ prev[t].op = "store"
         /\ last[t].loc = prev[t].loc
         /\ last[t].len = prev[t].ts) => last[t].ret = prev[t].val

C4_Witness ==
    /\ prev[Subject].op = "store" /\ prev[Subject].val = IntPtrMin
    /\ prev[Subject].ts >= 3
    /\ last[Subject].op = "load" /\ last[Subject].len = prev[Subject].ts
    /\ last[Subject].ret = IntPtrMin

\* C5: an exchange returns the value that was in the cell immediately before
\* it (the value of the caller's store when nothing was written in
\* between), and a load that follows it with no write in between returns
\* the value it installed.
C5_ExchangeReturnsPrior ==
    \A t \in Threads :
        /\ last[t].op = "exchange" =>
              last[t].ret = mem[last[t].loc][last[t].ts - 1].val
        /\ (/\ last[t].op = "exchange" /\ prev[t].op = "store"
            /\ last[t].loc = prev[t].loc
            /\ last[t].ts = prev[t].ts + 1) => last[t].ret = prev[t].val
        /\ (/\ last[t].op = "load" /\ prev[t].op = "exchange"
            /\ last[t].loc = prev[t].loc
            /\ last[t].len = prev[t].ts) => last[t].ret = prev[t].val

C5_Witness ==
    /\ prev[Subject].op = "exchange" /\ prev[Subject].val = 7
    /\ prev[Subject].ret = 3 /\ prev[Subject].src = "store"
    /\ last[Subject].op = "load" /\ last[Subject].ret = 7

\* C6: in the polling scenario every load returns 0 or 42, and under fair
\* scheduling every reader eventually observes 42.
C6_PollTerminates ==
    /\ [](\A t \in Threads : last[t].op = "load" => last[t].ret \in {0, 42})
    /\ <>(\A t \in Readers : Observed(t, 42))

C6_Witness ==
    \E t \in Readers :
        /\ prev[t].op = "load" /\ prev[t].ret = 0
        /\ Observed(t, 42)

\* C7: a store releases nothing of the caller's view: unless it continues
\* the release sequence of an earlier exchange of the same thread, what it
\* writes carries no data write with it.
C7_StoreDoesNotPublish ==
    \A k \in 1..Len(mem[Cell]) :
        LET m == mem[Cell][k]
        IN  (/\ m.op = "store"
             /\ \A j \in 1..k : ~(mem[Cell][j].op = "exchange" /\ mem[Cell][j].by = m.by))
            => m.rel[Data] = 1

\* C7: the execution is reachable: a reader loaded the value of a store made
\* after the writer's data write, and then read the data as it was before.
C7_Witness ==
    \E t \in Readers :
        /\ prev[t].op = "load" /\ prev[t].src = "store"
        /\ need[t].rlx >= 2
        /\ last[t].op = "read" /\ last[t].ts < need[t].rlx /\ last[t].ret = 0

\* C8: a call in progress can always take its step and return, whatever the
\* cell holds, whatever was passed and wherever the other threads are.
C8_NonBlocking ==
    \A t \in Threads :
        /\ pc[t] = "store" => ENABLED (DoStore(t) /\ pc'[t] = "idle")
        /\ pc[t] = "load" => ENABLED (DoLoad(t) /\ pc'[t] = "idle")
        /\ pc[t] = "exchange" => ENABLED (DoExchange(t) /\ pc'[t] = "idle")

C8_Witness ==
    \E t, u \in Threads :
        /\ pc[t] = "exchange" /\ view[t][Cell] < Len(mem[Cell])
        /\ u # t /\ pc[u] = "store"

\* C9: a load never returns a write older than the one the same thread's
\* previous load of the cell returned.
C9_ReadCoherence ==
    \A t \in Threads : last[t].op = "load" => last[t].ts >= last[t].floor

C9_Witness ==
    \E t \in Threads :
        /\ last[t].op = "load" /\ last[t].floor >= 2
        /\ mem[Cell][last[t].floor].by # t

\* C10: a load step changes no cell and no other thread's view; a store or
\* exchange step changes only the cell it was called on.
C10_Frame ==
    [][\A t \in Threads :
         /\ (pc[t] = "load" /\ pc'[t] = "idle") =>
               /\ mem' = mem
               /\ xret' = xret
               /\ \A u \in Threads \ {t} : view'[u] = view[u]
         /\ (pc[t] \in {"store", "exchange"} /\ pc'[t] = "idle") =>
               /\ \A l \in Locs \ {arg[t].loc} : mem'[l] = mem[l]
               /\ Len(mem'[arg[t].loc]) = Len(mem[arg[t].loc]) + 1]_vars

C10_Witness ==
    \E t, u \in Threads :
        /\ last[t].op = "load" /\ last[t].loc = Cell /\ last[t].ret # Initial
        /\ u # t /\ last[u].op = "store" /\ last[u].loc = Other

====
